---- MODULE Spec2Model ----
(***************************************************************************)
(* A model of bd_pz5.py: the FoodDatabase client (barcode lookup with an   *)
(* in-memory cache, search by name, product normalisation), the            *)
(* SearchThread worker and the SimpleCalorieFinder window that starts      *)
(* workers and loads product details.                                      *)
(*                                                                         *)
(* Python values are modelled as follows.  A str is a sequence of          *)
(* one-character strings.  A JSON value is a record [t, s]: t = "none" is  *)
(* None (JSON null), t = "str" a string with characters s, t = "dict" a    *)
(* nested object whose (abstract) content is s.  A dict whose keys the     *)
(* code reads is a function from key names to values; a key that is absent *)
(* from the dict is absent from the DOMAIN, so {} is the empty function.   *)
(* Non-ASCII literals of the source are written in ASCII.                  *)
(***************************************************************************)
EXTENDS Integers, Sequences, FiniteSets, TLC

VARIABLES
    cache,     \* FoodDatabase.cache: barcode -> the document stored by line 28
    thr,       \* the SearchThread objects: thread id -> its position and what it has seen
    prev,      \* serialized runs: the barcode lookup made by the run before this one
    search_btn_enabled,  \* SimpleCalorieFinder.search_btn.isEnabled()
    results_table,       \* the texts of column 2 (barcode) of results_table, row by row
    ui,        \* the foreground thread: idle in the event loop, or blocked in a GET
    events,    \* the signals queued for the foreground thread, by emitting thread
    nraw,      \* clean_product_data: the product passed in
    nres,      \* clean_product_data: the outcome for nraw
    nagain,    \* clean_product_data: the outcome for the dict returned in nres
    nrekey     \* clean_product_data: the outcome for nres' fields under the raw keys

nvars == <<nraw, nres, nagain, nrekey>>
svars == <<cache, thr, prev>>
uvars == <<search_btn_enabled, results_table, ui, events>>
vars == <<cache, thr, prev, search_btn_enabled, results_table, ui, events,
          nraw, nres, nagain, nrekey>>

(***************************************************************************)
(* Bounds                                                                  *)
(***************************************************************************)
MaxStrLen == 2      \* longest text over {space, a} tried as a name or a brand
MaxProducts == 2    \* longest product list in a search response
MaxThreads == 2     \* SearchThreads the window creates

(***************************************************************************)
(* Python strings and values                                               *)
(***************************************************************************)
Whitespace == {" "}
Digits == {"0", "1", "2", "3", "4", "5", "6", "7", "8", "9"}

None == [t |-> "none", s |-> <<>>]
Str(chars) == [t |-> "str", s |-> chars]
Obj(content) == [t |-> "dict", s |-> content]
Num(n) == [t |-> "num", s |-> <<n>>]
JsonList == [t |-> "list", s |-> <<>>]

\* bool(v) for a JSON value
Truthy(v) ==
    IF v.t = "none" THEN FALSE
    ELSE IF v.t = "num" THEN v.s # <<0>>
    ELSE v.s # <<>>

\* d.get(k): None when the key is absent
get(d, k) == IF k \in DOMAIN d THEN d[k] ELSE None

\* d.get(k, default)
get_default(d, k, default) == IF k \in DOMAIN d THEN d[k] ELSE default

\* a or b
py_or(a, b) == IF Truthy(a) THEN a ELSE b

\* str.strip()
strip(chars) ==
    LET keep == {i \in 1..Len(chars) : chars[i] \notin Whitespace}
        lo == CHOOSE i \in keep : \A j \in keep : i <= j
        hi == CHOOSE i \in keep : \A j \in keep : j <= i
    IN IF keep = {} THEN <<>> ELSE SubSeq(chars, lo, hi)

\* str.isdigit()
isdigit(chars) == chars # <<>> /\ \A i \in 1..Len(chars) : chars[i] \in Digits

\* the outcome of a call: a returned value or a raised exception with text exc
Return(v) == [raised |-> FALSE, exc |-> <<>>, value |-> v]
Raise(text) == [raised |-> TRUE, exc |-> text, value |-> <<>>]

(***************************************************************************)
(* FoodDatabase.clean_product_data                                         *)
(***************************************************************************)
NULL_LITERAL == <<"n", "u", "l", "l">>
UNKNOWN_PRODUCT == <<"U", "n", "k", "n", "o", "w", "n">>  \* the name placeholder, line 80
DASH == <<"-">>                                          \* the placeholder of lines 84, 89, 90
ATTRIBUTE_ERROR == <<"no attribute 'strip'">>            \* str(e) of .strip() on a non-str

\* .get(key, '').strip(), then the placeholder for an empty or 'null' text
clean_text(product, key, placeholder) ==
    LET v == get_default(product, key, Str(<<>>))
        text == strip(v.s)
    IN IF v.t # "str" THEN Raise(ATTRIBUTE_ERROR)
       ELSE IF text = <<>> \/ text = NULL_LITERAL THEN Return(placeholder)
       ELSE Return(text)

\* a plausible slip: 'null' compared before the text is stripped
clean_product_data_null_before_strip(product) ==
    LET clean(key, placeholder) ==
            LET v == get_default(product, key, Str(<<>>))
            IN IF v.t # "str" THEN Raise(ATTRIBUTE_ERROR)
               ELSE IF v.s = <<>> \/ v.s = NULL_LITERAL THEN Return(placeholder)
               ELSE Return(strip(v.s))
        name == clean("product_name", UNKNOWN_PRODUCT)
        brand == clean("brands", DASH)
    IN IF product = <<>> THEN Return(<<>>)
       ELSE IF name.raised THEN name
       ELSE IF brand.raised THEN brand
       ELSE Return([name |-> Str(name.value),
                    brand |-> Str(brand.value),
                    barcode |-> py_or(get(product, "code"), Str(DASH)),
                    quantity |-> py_or(get(product, "quantity"), Str(DASH)),
                    nutriments |-> get_default(product, "nutriments", Obj(<<>>))])

clean_product_data(product) ==
    LET name == clean_text(product, "product_name", UNKNOWN_PRODUCT)
        brand == clean_text(product, "brands", DASH)
    IN IF product = <<>> THEN Return(<<>>)
       ELSE IF name.raised THEN name
       ELSE IF brand.raised THEN brand
       ELSE Return([name |-> Str(name.value),
                    brand |-> Str(brand.value),
                    barcode |-> py_or(get(product, "code"), Str(DASH)),
                    quantity |-> py_or(get(product, "quantity"), Str(DASH)),
                    nutriments |-> get_default(product, "nutriments", Obj(<<>>))])

(***************************************************************************)
(* The raw products the provider can send                                  *)
(***************************************************************************)
RECURSIVE StringsOfLen(_)
StringsOfLen(n) ==
    IF n = 0 THEN {<<>>}
    ELSE {Append(w, c) : w \in StringsOfLen(n - 1), c \in {" ", "a"}}

\* every text over {space, a} up to MaxStrLen, and 'null' with and without blanks around it
Texts ==
    UNION {StringsOfLen(n) : n \in 0..MaxStrLen}
    \cup {NULL_LITERAL, <<" ">> \o NULL_LITERAL, NULL_LITERAL \o <<" ">>,
          <<" ">> \o NULL_LITERAL \o <<" ">>}

BARCODE_A == <<"1", "2", "3", "4", "5", "6", "7", "8">>

Absent == [t |-> "absent", s |-> <<>>]

\* a dict from one option per key, Absent leaving the key out
MkDict(options) ==
    [k \in {key \in DOMAIN options : options[key] # Absent} |-> options[k]]

RawProducts ==
    {MkDict(o) : o \in [product_name : {Absent, None} \cup {Str(w) : w \in Texts},
                        brands : {Absent, None} \cup {Str(w) : w \in Texts},
                        code : {Absent, None, Str(<<>>), Str(BARCODE_A)},
                        quantity : {Absent, Str(<<"1", "l">>)},
                        nutriments : {Absent, None, Obj(<<>>), Obj(<<"energy-kcal_100g">>)},
                        lang : {Absent, Str(<<"e", "n">>)}]}

(***************************************************************************)
(* The provider: what session.get(...) and response.json() can produce     *)
(***************************************************************************)
NotCalled == [raised |-> FALSE, exc |-> <<"not called">>, value |-> <<>>]

BARCODE_B == <<"8", "7", "6", "5", "4", "3", "2", "1">>

PRODUCT_A == [product_name |-> Str(<<"a">>), brands |-> Str(<<"a">>), code |-> Str(BARCODE_A)]
PRODUCT_B == [product_name |-> Str(<<" ", "a">>), code |-> Str(BARCODE_B)]
PRODUCT_BRAND_ONLY == [product_name |-> Str(<<>>), brands |-> Str(<<"A", "c", "m", "e">>)]
PRODUCT_NULL_NAME == [product_name |-> None, brands |-> Str(<<"a">>), code |-> Str(BARCODE_B)]
PRODUCT_NO_NAME == [lang |-> Str(<<"e", "n">>)]

SampleProducts ==
    {PRODUCT_A, PRODUCT_B, PRODUCT_BRAND_ONLY, PRODUCT_NULL_NAME, PRODUCT_NO_NAME}

TIMEOUT == <<"Read timed out">>          \* str(e) of requests' timeout
JSON_ERROR == <<"Expecting value">>      \* str(e) of response.json() on a malformed body
GET_ERROR == <<"no attribute 'get'">>    \* str(e) of data.get on a body that is no object

\* a transport failure of session.get
Failed(cause) == [error |-> cause, status_code |-> 0, json |-> NotCalled]
\* an HTTP response with its status code and what response.json() does
Answer(code, json) == [error |-> <<>>, status_code |-> code, json |-> json]
NoResponse == [error |-> <<"no response yet">>, status_code |-> 0, json |-> NotCalled]

HTTP_OK == 200


LookupBodies ==
    {[status |-> Num(0)], [status |-> Num(0), product |-> None],
     [status |-> Num(1)], [status |-> Num(1), product |-> None],
     [status |-> Num(1), product |-> <<>>], [status |-> Num(0), product |-> PRODUCT_A]}
    \cup {[status |-> Num(1), product |-> p] : p \in SampleProducts}

LookupResponses ==
    {Failed(TIMEOUT), Answer(HTTP_OK, Raise(JSON_ERROR)), Answer(HTTP_OK, Return(JsonList)),
     Answer(404, Raise(JSON_ERROR)),
     Answer(404, Return([status |-> Num(1), product |-> PRODUCT_A]))}
    \cup {Answer(HTTP_OK, Return(body)) : body \in LookupBodies}

RECURSIVE ProductLists(_)
ProductLists(n) ==
    IF n = 0 THEN {<<>>}
    ELSE ProductLists(n - 1)
         \cup {Append(l, p) : l \in {x \in ProductLists(n - 1) : Len(x) = n - 1},
                              p \in SampleProducts}

SearchResponses ==
    {Failed(TIMEOUT), Answer(HTTP_OK, Raise(JSON_ERROR)), Answer(HTTP_OK, Return(JsonList)),
     Answer(404, Raise(JSON_ERROR)), Answer(HTTP_OK, Return(<<>>))}
    \cup {Answer(HTTP_OK, Return([products |-> l])) : l \in ProductLists(MaxProducts)}

(***************************************************************************)
(* FoodDatabase.get_product_by_barcode                                     *)
(***************************************************************************)
LOOKUP_PREFIX == <<"Oshibka: ">>
SEARCH_PREFIX == <<"Oshibka poiska: ">>
NOT_FOUND == [status |-> Num(0), product |-> None]

\* bool(v) for what a 'product' field holds: None, or a dict
truthy_obj(v) == v # None /\ v # <<>>

\* line 19
cache_hit(c, barcode) == barcode \in DOMAIN c

\* line 28 with the product's own code as the key, where it has one
cache_store_by_code(c, barcode, data) ==
    LET code == get(data["product"], "code")
        key == IF code.t = "str" THEN code.s ELSE barcode
    IN [k \in DOMAIN c \cup {key} |-> IF k = key THEN data ELSE c[k]]

\* line 28
cache_store(c, barcode, data) ==
    [k \in DOMAIN c \cup {barcode} |-> IF k = barcode THEN data ELSE c[k]]

\* lines 25 to 27 without the test of the status flag
lookup_found_any_flag(response) ==
    /\ response.error = <<>>
    /\ response.status_code = HTTP_OK
    /\ ~response.json.raised
    /\ response.json.value # JsonList
    /\ truthy_obj(get(response.json.value, "product"))

\* lines 25 to 27: the response is a found product
lookup_found(response) ==
    /\ response.error = <<>>
    /\ response.status_code = HTTP_OK
    /\ ~response.json.raised
    /\ response.json.value # JsonList
    /\ get(response.json.value, "status") = Num(1)
    /\ truthy_obj(get(response.json.value, "product"))

\* lines 32 and 33 without the text of the cause
get_product_by_barcode_except_no_cause(cause) == Raise(LOOKUP_PREFIX)

\* lines 32 and 33
get_product_by_barcode_except(cause) == Raise(LOOKUP_PREFIX \o cause)

\* lines 24 to 33 with raise_for_status() after the GET
get_product_by_barcode_raise_for_status(response) ==
    IF response.error # <<>> THEN get_product_by_barcode_except(response.error)
    ELSE IF response.status_code # HTTP_OK
    THEN get_product_by_barcode_except(<<"HTTP error">>)
    ELSE IF response.json.raised THEN get_product_by_barcode_except(response.json.exc)
    ELSE IF response.json.value = JsonList THEN get_product_by_barcode_except(GET_ERROR)
    ELSE IF lookup_found(response) THEN Return(response.json.value)
    ELSE Return(NOT_FOUND)

\* lines 24 to 33: what the call returns or raises once the GET has ended
get_product_by_barcode_response(response) ==
    IF response.error # <<>> THEN get_product_by_barcode_except(response.error)
    ELSE IF response.status_code # HTTP_OK THEN Return(NOT_FOUND)
    ELSE IF response.json.raised THEN get_product_by_barcode_except(response.json.exc)
    ELSE IF response.json.value = JsonList THEN get_product_by_barcode_except(GET_ERROR)
    ELSE IF lookup_found(response) THEN Return(response.json.value)
    ELSE Return(NOT_FOUND)

(***************************************************************************)
(* FoodDatabase.search_products                                            *)
(***************************************************************************)
\* line 49
has_name_or_brand(product) ==
    Truthy(get(product, "product_name")) \/ Truthy(get(product, "brands"))

\* lines 44 to 55: what the call returns or raises once the GET has ended
search_products_response(response) ==
    IF response.error # <<>> THEN Raise(SEARCH_PREFIX \o response.error)
    ELSE IF response.json.raised THEN Raise(SEARCH_PREFIX \o response.json.exc)
    ELSE IF response.json.value = JsonList THEN Raise(SEARCH_PREFIX \o GET_ERROR)
    ELSE Return([products |->
                    SelectSeq(get_default(response.json.value, "products", <<>>),
                              has_name_or_brand)])

(***************************************************************************)
(* SearchThread.run                                                        *)
(***************************************************************************)
MIN_BARCODE_LEN == 8
ENTER_QUERY == <<"Vvedite zapros">>
KEY_ERROR == <<"'name'">>               \* str(e) of cleaned['name'] on {}

SearchComplete(products) == [kind |-> "search_complete", products |-> products, text |-> <<>>]
SearchError(text) == [kind |-> "search_error", products |-> <<>>, text |-> text]

\* lines 121 to 125 without the test of the placeholder
RECURSIVE clean_loop_keep_all(_, _)
clean_loop_keep_all(products, cleaned_products) ==
    IF products = <<>> THEN Return(cleaned_products)
    ELSE LET cleaned == clean_product_data(Head(products))
         IN IF cleaned.raised THEN cleaned
            ELSE IF cleaned.value = <<>> THEN Raise(KEY_ERROR)
            ELSE clean_loop_keep_all(Tail(products), Append(cleaned_products, cleaned.value))

\* lines 121 to 125: the loop over products, from the product at the head on
RECURSIVE clean_loop(_, _)
clean_loop(products, cleaned_products) ==
    IF products = <<>> THEN Return(cleaned_products)
    ELSE LET cleaned == clean_product_data(Head(products))
         IN IF cleaned.raised THEN cleaned
            ELSE IF cleaned.value = <<>> THEN Raise(KEY_ERROR)
            ELSE clean_loop(Tail(products),
                            IF cleaned.value.name # Str(UNKNOWN_PRODUCT)
                            THEN Append(cleaned_products, cleaned.value)
                            ELSE cleaned_products)

\* lines 129 and 130 with the exception swallowed
run_except_swallow(text) == <<>>

\* lines 129 and 130: the signals emitted for an exception with text str(e)
run_except(text) == <<SearchError(text)>>

\* lines 121 to 130: the signals emitted from the candidate list on
run_finish(products) ==
    LET cleaned == clean_loop(products, <<>>)
    IN IF cleaned.raised THEN run_except(cleaned.exc)
       ELSE <<SearchComplete(cleaned.value)>>

\* lines 113 to 116
barcode_candidates(result) ==
    IF get(result, "status") = Num(1) /\ truthy_obj(get(result, "product"))
    THEN <<result.product>>
    ELSE <<>>

\* lines 112 to 130, from the outcome of get_product_by_barcode on
run_after_barcode(outcome) ==
    IF outcome.raised THEN run_except(outcome.exc)
    ELSE run_finish(barcode_candidates(outcome.value))

\* lines 118 to 130, from the outcome of search_products on
run_after_search(outcome) ==
    IF outcome.raised THEN run_except(outcome.exc)
    ELSE run_finish(get_default(outcome.value, "products", <<>>))

\* line 111
is_barcode(query) == isdigit(query) /\ Len(query) >= MIN_BARCODE_LEN

(***************************************************************************)
(* The threads                                                             *)
(***************************************************************************)
Q_EMPTY == <<>>
Q_BLANK == <<" ">>
Q_BARCODE_A == BARCODE_A
Q_BARCODE_B == <<" ">> \o BARCODE_B
Q_TEXT == <<"a">>
Q_SHORT_DIGITS == <<"1", "2", "3">>

Queries == {Q_EMPTY, Q_BLANK, Q_BARCODE_A, Q_BARCODE_B, Q_TEXT, Q_SHORT_DIGITS}

Threads == 1..MaxThreads

\* a SearchThread that does not exist yet
Unborn ==
    [pc |-> "unborn", query |-> <<>>, cache0 |-> <<>>, op |-> "none", net |-> 0,
     resp |-> NoResponse, client |-> NotCalled, signals |-> <<>>]

\* SearchThread(db, query) followed by start(), lines 99 to 102; cache0 is the cache it finds
Started(query, c) == [Unborn EXCEPT !.pc = "start", !.query = query, !.cache0 = c]

\* lines 104 to 118 and line 19: run() up to the GET that blocks, or to its end
RunThread(w) ==
    /\ thr[w].pc = "start"
    /\ LET query == strip(thr[w].query)
       IN IF query = <<>>
          THEN thr' = [thr EXCEPT ![w].pc = "finished",
                                  ![w].signals = <<SearchError(ENTER_QUERY)>>]
          ELSE IF is_barcode(query)
          THEN IF cache_hit(cache, query)
               THEN thr' = [thr EXCEPT ![w].pc = "finished",
                                       ![w].op = "barcode",
                                       ![w].client = Return(cache[query]),
                                       ![w].signals = run_after_barcode(Return(cache[query]))]
               ELSE thr' = [thr EXCEPT ![w].pc = "get_barcode", ![w].op = "barcode",
                                       ![w].net = 1]
          ELSE thr' = [thr EXCEPT ![w].pc = "get_search", ![w].op = "search", ![w].net = 1]
    /\ UNCHANGED cache

\* lines 24 to 33, then lines 113 to 130: the GET of the lookup ends
LookupResponse(w, response) ==
    /\ thr[w].pc = "get_barcode"
    /\ LET outcome == get_product_by_barcode_response(response)
       IN /\ cache' = IF lookup_found(response)
                      THEN cache_store(cache, strip(thr[w].query), response.json.value)
                      ELSE cache
          /\ thr' = [thr EXCEPT ![w].pc = "finished", ![w].resp = response,
                                ![w].client = outcome,
                                ![w].signals = run_after_barcode(outcome)]

\* lines 44 to 55, then lines 119 to 130: the GET of the search ends
SearchResponse(w, response) ==
    /\ thr[w].pc = "get_search"
    /\ LET outcome == search_products_response(response)
       IN thr' = [thr EXCEPT ![w].pc = "finished", ![w].resp = response,
                             ![w].client = outcome,
                             ![w].signals = run_after_search(outcome)]
    /\ UNCHANGED cache

(***************************************************************************)
(* Serialized runs: a SearchThread is started when none is in flight       *)
(***************************************************************************)
NoLookup == [barcode |-> <<>>, net |-> 0, resp |-> NoResponse, client |-> NotCalled]

\* the get_product_by_barcode call of a finished thread
LookupOf(t) ==
    [barcode |-> strip(t.query), net |-> t.net, resp |-> t.resp, client |-> t.client]

SerialInit ==
    /\ cache = <<>>
    /\ thr = [w \in Threads |-> Unborn]
    /\ prev = NoLookup
    /\ search_btn_enabled = TRUE /\ results_table = <<>> /\ ui = <<>> /\ events = <<>>
    /\ nraw = <<>> /\ nres = NotCalled /\ nagain = NotCalled /\ nrekey = NotCalled

SerialStart(query) ==
    /\ thr[1].pc \in {"unborn", "finished"}
    /\ thr' = [thr EXCEPT ![1] = Started(query, cache)]
    /\ prev' = IF thr[1].op = "barcode" THEN LookupOf(thr[1]) ELSE prev
    /\ UNCHANGED <<cache, uvars, nvars>>

SerialRun == RunThread(1) /\ UNCHANGED <<prev, uvars, nvars>>

SerialLookupResponse ==
    \E response \in LookupResponses : LookupResponse(1, response) /\ UNCHANGED <<prev, uvars, nvars>>

SerialSearchResponse ==
    \E response \in SearchResponses : SearchResponse(1, response) /\ UNCHANGED <<prev, uvars, nvars>>

SerialNext ==
    \/ \E query \in Queries : SerialStart(query)
    \/ SerialRun
    \/ SerialLookupResponse
    \/ SerialSearchResponse

SpecSerial == SerialInit /\ [][SerialNext]_vars

(***************************************************************************)
(* Properties of serialized runs                                           *)
(***************************************************************************)
Finished(w) == thr[w].pc = "finished"

\* text contains part as a contiguous piece
Contains(text, part) ==
    \E i \in 0..(Len(text) - Len(part)) : SubSeq(text, i + 1, i + Len(part)) = part

\* the response is HTTP 200 with status flag 1 and a non-empty product
GoodLookup(resp) ==
    /\ resp.error = <<>> /\ resp.status_code = 200 /\ ~resp.json.raised
    /\ resp.json.value # JsonList
    /\ "status" \in DOMAIN resp.json.value /\ resp.json.value["status"] = Num(1)
    /\ "product" \in DOMAIN resp.json.value
    /\ resp.json.value["product"] \notin {None, <<>>}

\* the provider answered, with no product: not 200, or a body whose flag is not 1 or
\* whose product is missing or empty
NoProduct(resp) ==
    /\ resp.error = <<>>
    /\ \/ resp.status_code # 200
       \/ /\ ~resp.json.raised /\ resp.json.value # JsonList
          /\ \/ "status" \notin DOMAIN resp.json.value
             \/ resp.json.value["status"] # Num(1)
             \/ "product" \notin DOMAIN resp.json.value
             \/ resp.json.value["product"] \in {None, <<>>}

\* C1: a run of the worker that has ended has emitted exactly one terminal signal,
\* search_complete or search_error; a run that has not ended has emitted none, and a run
\* waiting for a GET can always end (at the latest by the GET's timeout). This holds
\* whatever the query (empty, barcode, text) and whatever the client or the normalisation
\* raises.
C1_ExactlyOneSignal ==
    \A w \in Threads :
        /\ thr[w].pc \in {"unborn", "start", "get_barcode", "get_search", "finished"}
        /\ Finished(w) => /\ Len(thr[w].signals) = 1
                          /\ thr[w].signals[1].kind \in {"search_complete", "search_error"}
        /\ ~Finished(w) => thr[w].signals = <<>>
        /\ thr[w].pc = "get_barcode" =>
              ENABLED (LookupResponse(w, Failed(TIMEOUT)) /\ Finished(w)')
        /\ thr[w].pc = "get_search" =>
              ENABLED (SearchResponse(w, Failed(TIMEOUT)) /\ Finished(w)')

\* a run that ended in search_error because clean_product_data raised
C1_Witness ==
    /\ Finished(1) /\ thr[1].op = "search" /\ ~thr[1].client.raised
    /\ thr[1].signals = <<SearchError(ATTRIBUTE_ERROR)>>

\* C2: a step never removes or replaces a cache entry; an entry appears only in the step
\* that ends a barcode lookup's GET with HTTP 200, status flag 1 and a non-empty product,
\* under the barcode the lookup was called with and holding that response's document;
\* a step of search_products leaves the cache as it is.
C2_CacheOnlyFromFoundLookups ==
    [][/\ \A b \in DOMAIN cache : b \in DOMAIN cache' /\ cache'[b] = cache[b]
       /\ \A b \in DOMAIN cache' \ DOMAIN cache :
            \E w \in Threads :
                /\ thr[w].pc = "get_barcode" /\ thr'[w].pc = "finished"
                /\ strip(thr[w].query) = b
                /\ GoodLookup(thr'[w].resp)
                /\ cache'[b] = thr'[w].resp.json.value
       /\ (\E w \in Threads : thr'[w].op = "search" /\ thr'[w] # thr[w]) => cache' = cache
      ]_vars

\* two barcodes are cached and a search has just ended
C2_Witness ==
    /\ DOMAIN cache = {BARCODE_A, BARCODE_B}
    /\ Finished(1) /\ thr[1].op = "search" /\ thr[1].resp # NoResponse

\* the run before this one and this one looked up the same barcode
TwoLookups ==
    /\ Finished(1) /\ thr[1].op = "barcode"
    /\ prev # NoLookup /\ prev.barcode = strip(thr[1].query)

\* C3 as stated: whatever the first call's response, two consecutive lookups of a barcode
\* issue at most one network call: the second is a cache hit returning the cached document.
C3_AtMostOneCall ==
    TwoLookups =>
        /\ prev.net + thr[1].net <= 1
        /\ thr[1].net = 0
        /\ strip(thr[1].query) \in DOMAIN cache
        /\ thr[1].client = Return(cache[strip(thr[1].query)])

\* C3 amended: when the first call was answered with a found product (HTTP 200, status
\* flag 1, non-empty product) or was itself a cache hit, the second call issues no network
\* call and returns the cached document, the one the first call returned; when the first
\* call ended not found or raised, nothing was cached and the second call issues its own
\* network call.
C3_HitAfterFound ==
    TwoLookups =>
        IF prev.net = 0 \/ GoodLookup(prev.resp)
        THEN /\ prev.net + thr[1].net <= 1
             /\ thr[1].net = 0
             /\ strip(thr[1].query) \in DOMAIN cache
             /\ thr[1].client = Return(cache[strip(thr[1].query)])
             /\ thr[1].client = prev.client
        ELSE thr[1].net = 1 /\ prev.net = 1

\* a second lookup that was a cache hit after a first one that went to the network
C3_Witness ==
    TwoLookups /\ prev.net = 1 /\ GoodLookup(prev.resp) /\ thr[1].net = 0

\* the text of what made the client operation raise
Cause(resp) ==
    IF resp.error # <<>> THEN resp.error
    ELSE IF resp.json.raised THEN resp.json.exc
    ELSE GET_ERROR

\* C5: when get_product_by_barcode or search_products raised in a run, the run emitted
\* search_error with a message containing the text of the cause, no search_complete, and
\* the cache is as the run found it.
C5_FailureCarriesCause ==
    \A w \in Threads :
        Finished(w) /\ thr[w].client.raised =>
            /\ \E i \in DOMAIN thr[w].signals :
                  /\ thr[w].signals[i].kind = "search_error"
                  /\ Contains(thr[w].signals[i].text, Cause(thr[w].resp))
            /\ \A i \in DOMAIN thr[w].signals : thr[w].signals[i].kind # "search_complete"
            /\ cache = thr[w].cache0

\* a barcode lookup timed out while the cache held an entry
C5_Witness ==
    /\ Finished(1) /\ thr[1].op = "barcode" /\ thr[1].client.raised
    /\ thr[1].resp = Failed(TIMEOUT) /\ cache # <<>>

\* C6: a barcode query whose GET was answered without a transport error and with no
\* product ends in search_complete with an empty list, never search_error, and the cache
\* has no entry for the barcode.
C6_NotFoundIsSuccess ==
    \A w \in Threads :
        Finished(w) /\ thr[w].op = "barcode" /\ thr[w].net = 1 /\ NoProduct(thr[w].resp) =>
            /\ thr[w].signals = <<SearchComplete(<<>>)>>
            /\ strip(thr[w].query) \notin DOMAIN cache

\* the provider answered {status: 0, product: null} to a barcode
C6_Witness ==
    /\ Finished(1) /\ thr[1].op = "barcode"
    /\ thr[1].resp = Answer(200, Return([status |-> Num(0), product |-> None]))

\* the products the provider sent to this run (for a cache hit: sent when it was cached)
ProviderProducts(t) ==
    IF t.op = "search"
    THEN IF "products" \in DOMAIN t.resp.json.value THEN t.resp.json.value["products"] ELSE <<>>
    ELSE IF t.net = 0 THEN <<cache[strip(t.query)]["product"]>>
    ELSE IF GoodLookup(t.resp) THEN <<t.resp.json.value["product"]>>
    ELSE <<>>

\* the elements of list at the indices in keep, in the order of list
Picked(list, keep) ==
    LET upto[i \in 0..Len(list)] ==
            IF i = 0 THEN <<>>
            ELSE IF i \in keep THEN Append(upto[i - 1], list[i])
            ELSE upto[i - 1]
    IN upto[Len(list)]

BrandOnly(product) ==
    /\ "product_name" \in DOMAIN product /\ product["product_name"] = Str(<<>>)
    /\ "brands" \in DOMAIN product /\ product["brands"].t = "str"
    /\ product["brands"].s # <<>>

\* C7: the payload of search_complete is the normalisation of a subsequence of the
\* provider's products, in the provider's order, with no record named by the placeholder;
\* a product with an empty name and a brand is kept by search_products and is not in the
\* payload.
C7_PayloadIsFilteredProviderOrder ==
    \A w \in Threads : \A i \in DOMAIN thr[w].signals :
        Finished(w) /\ thr[w].signals[i].kind = "search_complete" =>
            LET payload == thr[w].signals[i].products
                sent == ProviderProducts(thr[w])
            IN /\ \E keep \in SUBSET (1..Len(sent)) :
                    /\ \A k \in keep : ~clean_product_data(sent[k]).raised
                    /\ payload = [k \in 1..Len(Picked(sent, keep)) |->
                                    clean_product_data(Picked(sent, keep)[k]).value]
               /\ \A k \in DOMAIN payload : payload[k].name # Str(UNKNOWN_PRODUCT)
               /\ \A k \in DOMAIN sent :
                    BrandOnly(sent[k]) /\ thr[w].op = "search" =>
                        \E j \in DOMAIN thr[w].client.value.products :
                            thr[w].client.value.products[j] = sent[k]
               /\ Len(payload) <= Cardinality({k \in DOMAIN sent : ~BrandOnly(sent[k])})

\* the provider sent 'Acme' with an empty name before a named product; only the second
\* is in the payload
C7_Witness ==
    /\ Finished(1) /\ thr[1].op = "search"
    /\ thr[1].resp = Answer(200, Return([products |-> <<PRODUCT_BRAND_ONLY, PRODUCT_A>>]))
    /\ Len(thr[1].signals) = 1 /\ thr[1].signals[1].kind = "search_complete"
    /\ Len(thr[1].signals[1].products) = 1

(***************************************************************************)
(* SimpleCalorieFinder: the window, its slots and the threads it starts    *)
(***************************************************************************)
UiQueries == {Q_BLANK, Q_BARCODE_A, Q_TEXT}

UiLookupResponses ==
    {Failed(TIMEOUT), Answer(HTTP_OK, Return(NOT_FOUND)),
     Answer(HTTP_OK, Return([status |-> Num(1), product |-> PRODUCT_A])),
     Answer(HTTP_OK, Return([status |-> Num(1), product |-> PRODUCT_B]))}

UiSearchResponses ==
    {Failed(TIMEOUT)}
    \cup {Answer(HTTP_OK, Return([products |-> l])) : l \in ProductLists(1)}

Idle == [pc |-> "idle", barcode |-> <<>>]

\* a thread that has been started and whose signal no slot has handled yet
InFlight(w) == thr[w].pc \in {"start", "get_barcode", "get_search", "finished"}

Init ==
    /\ cache = <<>>
    /\ thr = [w \in Threads |-> Unborn]
    /\ prev = NoLookup
    /\ search_btn_enabled = TRUE
    /\ results_table = <<>>
    /\ ui = Idle
    /\ events = <<>>
    /\ nraw = <<>> /\ nres = NotCalled /\ nagain = NotCalled /\ nrekey = NotCalled

\* lines 230 to 243: the slot search_products, with text the content of search_input
search_products_slot(text) ==
    LET query == strip(text)
    IN IF query = <<>>
       THEN UNCHANGED <<thr, search_btn_enabled>>
       ELSE \E w \in Threads :
               /\ thr[w].pc = "unborn"
               /\ \A v \in Threads : v < w => thr[v].pc # "unborn"
               /\ search_btn_enabled' = FALSE
               /\ thr' = [thr EXCEPT ![w] = Started(query, cache)]

\* line 158: search_btn.clicked, which a disabled button does not emit
Clicked(text) ==
    /\ ui.pc = "idle"
    /\ search_btn_enabled
    /\ search_products_slot(text)
    /\ UNCHANGED <<cache, prev, results_table, ui, events, nvars>>

\* line 155: search_input.returnPressed, which search_btn's state does not affect
ReturnPressed(text) ==
    /\ ui.pc = "idle"
    /\ search_products_slot(text)
    /\ UNCHANGED <<cache, prev, results_table, ui, events, nvars>>

\* a signal emitted by a thread is queued for the foreground thread
Queued(w) == IF thr'[w].pc = "finished" THEN Append(events, w) ELSE events

WorkerRun(w) ==
    /\ RunThread(w)
    /\ events' = Queued(w)
    /\ UNCHANGED <<prev, search_btn_enabled, results_table, ui, nvars>>

WorkerLookupResponse(w) ==
    \E response \in UiLookupResponses :
        /\ LookupResponse(w, response)
        /\ events' = Queued(w)
        /\ UNCHANGED <<prev, search_btn_enabled, results_table, ui, nvars>>

WorkerSearchResponse(w) ==
    \E response \in UiSearchResponses :
        /\ SearchResponse(w, response)
        /\ events' = Queued(w)
        /\ UNCHANGED <<prev, search_btn_enabled, results_table, ui, nvars>>

\* lines 245 to 290: on_search_complete; column 2 of each row is str(product['barcode'])
on_search_complete ==
    /\ ui.pc = "idle"
    /\ events # <<>>
    /\ LET w == Head(events)
           products == thr[w].signals[1].products
       IN /\ thr[w].signals[1].kind = "search_complete"
          /\ search_btn_enabled' = TRUE
          /\ results_table' = [row \in 1..Len(products) |-> products[row].barcode.s]
          /\ thr' = [thr EXCEPT ![w].pc = "handled"]
    /\ events' = Tail(events)
    /\ UNCHANGED <<cache, prev, ui, nvars>>

\* lines 292 to 296: on_search_error
on_search_error ==
    /\ ui.pc = "idle"
    /\ events # <<>>
    /\ LET w == Head(events)
       IN /\ thr[w].signals[1].kind = "search_error"
          /\ search_btn_enabled' = TRUE
          /\ thr' = [thr EXCEPT ![w].pc = "handled"]
    /\ events' = Tail(events)
    /\ UNCHANGED <<cache, prev, results_table, ui, nvars>>

\* lines 298 to 311 and line 19: a double click on a row; load_product_details calls
\* get_product_by_barcode on the foreground thread, up to the GET that blocks
on_product_selected ==
    /\ ui.pc = "idle"
    /\ \E row \in 1..Len(results_table) :
          IF results_table[row] # DASH /\ ~cache_hit(cache, results_table[row])
          THEN ui' = [pc |-> "get_barcode", barcode |-> results_table[row]]
          ELSE UNCHANGED ui
    /\ UNCHANGED <<cache, thr, prev, search_btn_enabled, results_table, events, nvars>>

\* lines 24 to 33, then lines 309 to 311: the GET of load_product_details ends
load_product_details_response(response) ==
    /\ ui.pc = "get_barcode"
    /\ cache' = IF lookup_found(response)
                THEN cache_store(cache, ui.barcode, response.json.value)
                ELSE cache
    /\ ui' = Idle
    /\ UNCHANGED <<thr, prev, search_btn_enabled, results_table, events, nvars>>

Next ==
    \/ \E text \in UiQueries : Clicked(text)
    \/ \E text \in UiQueries : ReturnPressed(text)
    \/ \E w \in Threads : WorkerRun(w)
    \/ \E w \in Threads : WorkerLookupResponse(w)
    \/ \E w \in Threads : WorkerSearchResponse(w)
    \/ on_search_complete
    \/ on_search_error
    \/ on_product_selected
    \/ \E response \in UiLookupResponses : load_product_details_response(response)

Spec == Init /\ [][Next]_vars

\* C4 as stated: the foreground thread is never inside an HTTP GET, and so a step that
\* changes the cache is a step of a SearchThread, also after a double click on a row whose
\* barcode is not cached.
C4_NoForegroundGet == ui.pc # "get_barcode"

\* C10 as stated: at most one SearchThread is in flight (started, its signal not handled
\* yet) at any time.
C10_AtMostOneInFlight == Cardinality({w \in Threads : InFlight(w)}) <= 1

(***************************************************************************)
(* clean_product_data as a function of its argument                        *)
(***************************************************************************)
\* the fields of a returned record under the keys clean_product_data reads
Rekey(record) ==
    [product_name |-> record.name, brands |-> record.brand, code |-> record.barcode,
     quantity |-> record.quantity, nutriments |-> record.nutriments]

\* C8 as stated: for every non-empty raw product, a JSON null name or brand included,
\* clean_product_data returns a record whose name and brand are non-empty texts.
C8_NameAndBrandNonEmpty ==
    nres # NotCalled /\ nraw # <<>> =>
        /\ ~nres.raised
        /\ nres.value # <<>>
        /\ nres.value.name.t = "str" /\ nres.value.name.s # <<>>
        /\ nres.value.brand.t = "str" /\ nres.value.brand.s # <<>>

\* C9 as stated: clean_product_data applied to the record it returned yields that record.
C9_Idempotent == nagain # NotCalled => nagain = nres

\* C9 amended: clean_product_data is idempotent on field values: applied to a product
\* that carries the returned record's name, brand, barcode, quantity and nutriments under
\* the keys it reads (product_name, brands, code, quantity, nutriments), it returns a
\* record identical to that record.
C9_IdempotentOnFieldValues == nrekey # NotCalled => nrekey = nres

\* a name with a blank before it was stripped, and the record was normalised again
C9_Witness ==
    /\ nrekey # NotCalled
    /\ "product_name" \in DOMAIN nraw /\ nraw["product_name"] = Str(<<" ", "a">>)
    /\ nres.value.name = Str(<<"a">>)

NormInit ==
    /\ cache = <<>> /\ thr = <<>> /\ prev = <<>>
    /\ search_btn_enabled = TRUE /\ results_table = <<>> /\ ui = <<>> /\ events = <<>>
    /\ nraw \in RawProducts
    /\ nres = NotCalled
    /\ nagain = NotCalled
    /\ nrekey = NotCalled

Normalize ==
    /\ nres = NotCalled
    /\ nres' = clean_product_data(nraw)
    /\ UNCHANGED <<nraw, nagain, nrekey>>
    /\ UNCHANGED <<svars, uvars>>

NormalizeRecord ==
    /\ nres # NotCalled /\ ~nres.raised /\ nagain = NotCalled
    /\ nagain' = clean_product_data(nres.value)
    /\ UNCHANGED <<nraw, nres, nrekey>>
    /\ UNCHANGED <<svars, uvars>>

NormalizeRekeyed ==
    /\ nres # NotCalled /\ ~nres.raised /\ nres.value # <<>> /\ nrekey = NotCalled
    /\ nrekey' = clean_product_data(Rekey(nres.value))
    /\ UNCHANGED <<nraw, nres, nagain>>
    /\ UNCHANGED <<svars, uvars>>

NormNext == Normalize \/ NormalizeRecord \/ NormalizeRekeyed

SpecNorm == NormInit /\ [][NormNext]_vars

====
